---- MODULE Spec2Model ----
(***************************************************************************)
(* paramtools.build_schema.SchemaBuilder: the builder's attributes         *)
(* (base_spec, param_schema, validator_schema and the context of the       *)
(* validator schema object) and its two methods, build_schemas and         *)
(* load_params, as a state machine.                                        *)
(*                                                                         *)
(*   Spec      calls run one after the other on one builder                *)
(*   EditSpec  the same, and the caller may also assign to base_spec       *)
(*   ConcSpec  calls of several threads, interleaved statement by          *)
(*             statement                                                   *)
(***************************************************************************)
EXTENDS Integers, Sequences, FiniteSets, TLC

\* Longest sequence of entries of one parameter (baseline and revision).
MaxEntries == 1

Names == {"a", "b"}
Threads == {"t1", "t2"}

\* One schema object per thread that may still hold one, and the builder's.
ObjIds == 1..(Cardinality(Threads) + 1)

(***************************************************************************)
(* Raw (JSON-decoded) values: the integer n, or the string spelling n.     *)
(* A string with n < 0 stands for a string that spells no number.          *)
(***************************************************************************)
IntV(n) == [repr |-> "int", n |-> n]
StrV(n) == [repr |-> "str", n |-> n]

\* The schema definition read by __init__: the labels the dimension "year"
\* accepts, and the parameter every range rule refers to ("no greater than
\* the value of parameter a at the same label assignment").
ValidYears == {1}
RefParam == "a"

BaseEntries ==
    { [value |-> IntV(1), year |-> 1],
      [value |-> StrV(2), year |-> 1],
      [value |-> IntV(1), year |-> 9] }

\* A revision entry may leave the dimension out.
RevEntries ==
    { [value |-> IntV(1), year |-> 1],
      [value |-> StrV(2)],
      [value |-> IntV(1), year |-> 9] }

SeqsUpTo(S, n) == UNION {[1..m -> S] : m \in 0..n}

BaseSpecs == UNION {[D -> SeqsUpTo(BaseEntries, MaxEntries)] : D \in SUBSET Names}
Revisions == UNION {[D -> SeqsUpTo(RevEntries, MaxEntries)] : D \in SUBSET Names}

EmptyDict == <<>>

(***************************************************************************)
(* The collaborators of build_schema.py.                                   *)
(***************************************************************************)

\* utils.get_type: the semantic type of a baseline value, read off the value
\* of its first entry; an empty sequence has none.
get_type(v) ==
    IF Len(v) = 0 THEN "TypeResolutionError"
    ELSE IF Head(v).value.repr = "int" \/ Head(v).value.n >= 0 THEN "int"
    ELSE "str"

\* A field of the given type refuses the raw value.
FieldFails(type, raw) ==
    \/ type = "int" /\ raw.repr = "str" /\ raw.n < 0
    \/ type = "str" /\ raw.repr = "int"

\* A field's deserialization: an integer field yields the number itself,
\* also from its spelling; a string field keeps the raw string.
Deserialize(type, raw) == IF type = "int" THEN raw.n ELSE raw

\* The fields of one entry that its ValidatorItem refuses: the value by its
\* type, a present label by its dimension validator.
EntryFieldErrors(type, e) ==
    (IF FieldFails(type, e.value) THEN {"value"} ELSE {})
    \cup (IF "year" \in DOMAIN e /\ e.year \notin ValidYears THEN {"year"} ELSE {})

CleanEntry(type, e) ==
    IF "year" \in DOMAIN e
    THEN [value |-> Deserialize(type, e.value), year |-> e.year]
    ELSE [value |-> Deserialize(type, e.value)]

\* Errors of a document's fields under a schema with the given fields:
\* <<parameter, entry index, field>>; an unknown parameter has index 0.
FieldErrors(fields, doc) ==
    {<<k, 0, "unknown">> : k \in DOMAIN doc \ DOMAIN fields}
    \cup UNION { UNION { {<<k, i, f>> : f \in EntryFieldErrors(fields[k], doc[k][i])}
                         : i \in 1..Len(doc[k]) }
                 : k \in DOMAIN doc \cap DOMAIN fields }

CleanDoc(fields, doc) ==
    [k \in DOMAIN doc \cap DOMAIN fields |->
        [i \in 1..Len(doc[k]) |-> CleanEntry(fields[k], doc[k][i])]]

\* ParamSchema.load: every error of the document in one ValidationError, or
\* the cleaned document.
ParamSchemaLoad(fields, doc) ==
    LET errs == FieldErrors(fields, doc) IN
    IF errs # {}
    THEN [status |-> "ValidationError", errors |-> errs, data |-> EmptyDict]
    ELSE [status |-> "ok", errors |-> {}, data |-> CleanDoc(fields, doc)]

\* The baseline entries a revision entry is compared with: those of RefParam
\* with the same label, all of them when the entry names no label.
Targets(base, e) ==
    IF RefParam \in DOMAIN base
    THEN {j \in 1..Len(base[RefParam]) :
            "year" \in DOMAIN e => base[RefParam][j].year = e.year}
    ELSE {}

\* The range rule on one type-valid entry, against the cleaned baseline.
RangeErrors(base, type, e) ==
    LET v == Deserialize(type, e.value)
        T == Targets(base, e) IN
    IF T = {} THEN {"context"}
    ELSE IF \E j \in T : v > base[RefParam][j].value THEN {"range"}
    ELSE {}

\* The entries of a document that pass their fields and go on to the range rule.
RangeChecked(fields, doc) ==
    UNION { {<<k, i>> : i \in {j \in 1..Len(doc[k]) :
                                 EntryFieldErrors(fields[k], doc[k][j]) = {}}}
            : k \in DOMAIN doc \cap DOMAIN fields }

\* ValidatorSchema.load (BaseValidatorSchema): field errors and range errors
\* of every entry in one ValidationError, or the cleaned revision. The range
\* rule reads context["base_spec"].
ValidatorSchemaLoad(fields, context, doc) ==
    LET ferrs == FieldErrors(fields, doc)
        rc == RangeChecked(fields, doc) IN
    IF rc # {} /\ "base_spec" \notin DOMAIN context
    THEN [status |-> "KeyError", errors |-> {}, data |-> EmptyDict]
    ELSE
      LET rerrs == UNION { {<<p[1], p[2], f>> :
                              f \in RangeErrors(context.base_spec, fields[p[1]], doc[p[1]][p[2]])}
                           : p \in rc }
          errs == ferrs \cup rerrs IN
      IF errs # {}
      THEN [status |-> "ValidationError", errors |-> errs, data |-> EmptyDict]
      ELSE [status |-> "ok", errors |-> {}, data |-> CleanDoc(fields, doc)]

(***************************************************************************)
(* The arguments of load_params: a dict, a string, or something else.      *)
(* Strings: the path of an existing file, JSON text, a string that is both *)
(* (a file named "{}"), and a string that is neither.                      *)
(***************************************************************************)
FileRevision == [a |-> <<[value |-> IntV(1), year |-> 1]>>]
TextRevision == [b |-> <<[value |-> StrV(2)]>>]

Strings == {"rev.json", "{\"b\": ...}", "{}", "nonsense"}

\* os.path.exists
PathExists(s) == s \in {"rev.json", "{}"}

\* utils.read_json of an existing file
read_json(s) == FileRevision

\* json.loads
JsonParses(s) == s \in {"{\"b\": ...}", "{}"}
json_loads(s) == IF s = "{}" THEN EmptyDict ELSE TextRevision

DictArg(d) == [kind |-> "dict", data |-> d, s |-> ""]
StrArg(s) == [kind |-> "str", data |-> EmptyDict, s |-> s]
OtherArg == [kind |-> "other", data |-> EmptyDict, s |-> ""]

Args == {DictArg(d) : d \in Revisions} \cup {StrArg(s) : s \in Strings} \cup {OtherArg}

VARIABLES
    base_spec,          \* self.base_spec
    param_schema,       \* self.param_schema: [set, fields]
    validator_schema,   \* self.validator_schema: an object id, 0 while unset
    heap,               \* the ValidatorSchema objects: [live, fields, context]
    ret,                \* how the last finished call ended
    compiled,           \* a build_schemas call has run to completion
    built_from,         \* base_spec as the last completed build_schemas read it
    pc,                 \* each thread's position
    loc                 \* each thread's locals

vars == <<base_spec, param_schema, validator_schema, heap, ret, compiled, built_from, pc, loc>>

Unset == [set |-> FALSE, fields |-> EmptyDict]
FreeObj == [live |-> FALSE, fields |-> EmptyDict, context |-> EmptyDict]
IdleLoc == [op |-> "none", arg |-> OtherArg, params |-> EmptyDict,
            param_dict |-> EmptyDict, validator_dict |-> EmptyDict,
            cleaned |-> EmptyDict, obj |-> 0, context0 |-> EmptyDict]

NoRet == [op |-> "init", status |-> "ok", arg |-> OtherArg, validated |-> FALSE,
          params |-> EmptyDict, context |-> EmptyDict, errors |-> {},
          data |-> EmptyDict, was_compiled |-> FALSE]

Init ==
    /\ base_spec \in BaseSpecs
    /\ param_schema = Unset
    /\ validator_schema = 0
    /\ heap = [o \in ObjIds |-> FreeObj]
    /\ ret = NoRet
    /\ compiled = FALSE
    /\ built_from = EmptyDict
    /\ pc = [t \in Threads |-> "idle"]
    /\ loc = [t \in Threads |-> IdleLoc]

(***************************************************************************)
(* build_schemas                                                           *)
(***************************************************************************)

\* CompileFragments with every ValidatorItem stored under the one key "k"
\* (validator_dict["k"] for validator_dict[k]).
CompileFragmentsOneKey(bs) ==
    IF \E k \in DOMAIN bs : get_type(bs[k]) = "TypeResolutionError"
    THEN [status |-> "TypeResolutionError",
          validator_dict |-> EmptyDict, param_dict |-> EmptyDict]
    ELSE [status |-> "ok",
          validator_dict |-> [k \in (IF DOMAIN bs = {} THEN {} ELSE {"k"}) |-> "int"],
          param_dict |-> [k \in DOMAIN bs |-> get_type(bs[k])]]

\* Lines 53-65: one ValidatorItem and one IndividualParamSchema per key of
\* base_spec, in one pass; get_type raising ends the pass and the call.
CompileFragments(bs) ==
    IF \E k \in DOMAIN bs : get_type(bs[k]) = "TypeResolutionError"
    THEN [status |-> "TypeResolutionError",
          validator_dict |-> EmptyDict, param_dict |-> EmptyDict]
    ELSE [status |-> "ok",
          validator_dict |-> [k \in DOMAIN bs |-> get_type(bs[k])],
          param_dict |-> [k \in DOMAIN bs |-> get_type(bs[k])]]

\* Lines 67-69: ParamSchema() over param_dict.
NewParamSchema(param_dict) == [set |-> TRUE, fields |-> param_dict]

\* Lines 72-78: ValidatorSchema() over validator_dict; a new schema object
\* starts with an empty context.
NewValidatorSchema(validator_dict) ==
    [live |-> TRUE, fields |-> validator_dict, context |-> EmptyDict]

\* Line 79: context["base_spec"] = cleaned_base_spec
SetContext(context, cleaned) ==
    [k \in DOMAIN context \cup {"base_spec"} |->
        IF k = "base_spec" THEN cleaned ELSE context[k]]

\* The object ids some call in progress still holds.
Held(l) == {l[t].obj : t \in Threads} \ {0}

\* A fresh object: an id no call in progress holds (the builder's own
\* reference is the one being replaced).
NewId(l) == CHOOSE o \in ObjIds \ Held(l) : \A q \in ObjIds \ Held(l) : o <= q

\* Objects nothing refers to any more are collected.
Collect(h, vs, l) ==
    [o \in ObjIds |-> IF o \in Held(l) \cup {vs} THEN h[o] ELSE FreeObj]

Returned(op, arg, status, validated, params, context, errors, data, was) ==
    [op |-> op, status |-> status, arg |-> arg, validated |-> validated,
     params |-> params, context |-> context, errors |-> errors, data |-> data,
     was_compiled |-> was]

BuildReturned(status, errors) ==
    Returned("build_schemas", OtherArg, status, FALSE, EmptyDict, EmptyDict,
             errors, EmptyDict, compiled)

\* BuildResult with the ValidatorSchema published (lines 72-78) before the
\* baseline is loaded (line 70).
BuildResultEarlyPublish(bs, ps, old) ==
    LET frag == CompileFragments(bs) IN
    IF frag.status # "ok"
    THEN [status |-> frag.status, errors |-> {}, param_schema |-> ps,
          published |-> FALSE, validator |-> old]
    ELSE
      LET new_ps == NewParamSchema(frag.param_dict)
          r == ParamSchemaLoad(new_ps.fields, bs) IN
      IF r.status # "ok"
      THEN [status |-> r.status, errors |-> r.errors, param_schema |-> new_ps,
            published |-> TRUE,
            validator |-> NewValidatorSchema(frag.validator_dict)]
      ELSE [status |-> "ok", errors |-> {}, param_schema |-> new_ps,
            published |-> TRUE,
            validator |-> [NewValidatorSchema(frag.validator_dict) EXCEPT
                             !.context = SetContext(@, r.data)]]

\* BuildResult with the baseline loaded one parameter at a time, the first
\* failing parameter ending the call.
BuildResultFailFast(bs, ps, old) ==
    LET frag == CompileFragments(bs) IN
    IF frag.status # "ok"
    THEN [status |-> frag.status, errors |-> {}, param_schema |-> ps,
          published |-> FALSE, validator |-> old]
    ELSE
      LET new_ps == NewParamSchema(frag.param_dict)
          r == ParamSchemaLoad(new_ps.fields, bs)
          failing == {e[1] : e \in r.errors}
          first == CHOOSE k \in failing : TRUE IN
      IF r.status # "ok"
      THEN [status |-> r.status, errors |-> {e \in r.errors : e[1] = first},
            param_schema |-> new_ps, published |-> FALSE, validator |-> old]
      ELSE [status |-> "ok", errors |-> {}, param_schema |-> new_ps,
            published |-> TRUE,
            validator |-> [NewValidatorSchema(frag.validator_dict) EXCEPT
                             !.context = SetContext(@, r.data)]]

\* BuildResult with the cleaned entries appended to those the old context
\* already holds.
BuildResultAppending(bs, ps, old) ==
    LET frag == CompileFragments(bs) IN
    IF frag.status # "ok"
    THEN [status |-> frag.status, errors |-> {}, param_schema |-> ps,
          published |-> FALSE, validator |-> old]
    ELSE
      LET new_ps == NewParamSchema(frag.param_dict)
          r == ParamSchemaLoad(new_ps.fields, bs)
          before == IF "base_spec" \in DOMAIN old.context
                    THEN old.context.base_spec ELSE EmptyDict
          merged == [k \in DOMAIN r.data |->
                        IF k \in DOMAIN before THEN before[k] \o r.data[k]
                        ELSE r.data[k]] IN
      IF r.status # "ok"
      THEN [status |-> r.status, errors |-> r.errors, param_schema |-> new_ps,
            published |-> FALSE, validator |-> old]
      ELSE [status |-> "ok", errors |-> {}, param_schema |-> new_ps,
            published |-> TRUE,
            validator |-> [NewValidatorSchema(frag.validator_dict) EXCEPT
                             !.context = SetContext(@, merged)]]

\* What one whole build_schemas call does to the builder, lines 53-79:
\* how it ends, and what it has assigned by then.
BuildResult(bs, ps, old) ==
    LET frag == CompileFragments(bs) IN
    IF frag.status # "ok"
    THEN [status |-> frag.status, errors |-> {}, param_schema |-> ps,
          published |-> FALSE, validator |-> old]
    ELSE
      LET new_ps == NewParamSchema(frag.param_dict)
          r == ParamSchemaLoad(new_ps.fields, bs) IN
      IF r.status # "ok"
      THEN [status |-> r.status, errors |-> r.errors, param_schema |-> new_ps,
            published |-> FALSE, validator |-> old]
      ELSE [status |-> "ok", errors |-> {}, param_schema |-> new_ps,
            published |-> TRUE,
            validator |-> [NewValidatorSchema(frag.validator_dict) EXCEPT
                             !.context = SetContext(@, r.data)]]

\* The object self.validator_schema refers to (FreeObj while unset).
Validator == IF validator_schema = 0 THEN FreeObj ELSE heap[validator_schema]

BuildSchemas ==
    LET b == BuildResult(base_spec, param_schema, Validator)
        id == NewId(loc) IN
    /\ param_schema' = b.param_schema
    /\ IF b.published
       THEN /\ validator_schema' = id
            /\ heap' = Collect([heap EXCEPT ![id] = b.validator], id, loc)
       ELSE UNCHANGED <<validator_schema, heap>>
    /\ compiled' = (compiled \/ b.status = "ok")
    /\ built_from' = IF b.status = "ok" THEN base_spec ELSE built_from
    /\ ret' = BuildReturned(b.status, b.errors)
    /\ UNCHANGED <<base_spec, pc, loc>>

(***************************************************************************)
(* load_params                                                             *)
(***************************************************************************)

\* ResolveParams trying json.loads before os.path.exists.
ResolveParamsJsonFirst(arg) ==
    IF arg.kind = "str" /\ JsonParses(arg.s)
    THEN [status |-> "ok", params |-> json_loads(arg.s)]
    ELSE IF arg.kind = "str"
    THEN IF PathExists(arg.s)
         THEN [status |-> "ok", params |-> read_json(arg.s)]
         ELSE [status |-> "JSONDecodeError", params |-> EmptyDict]
    ELSE IF arg.kind = "dict"
    THEN [status |-> "ok", params |-> arg.data]
    ELSE [status |-> "ValueError", params |-> EmptyDict]

\* Lines 91-98: the params an argument stands for.
ResolveParams(arg) ==
    IF arg.kind = "str" /\ PathExists(arg.s)
    THEN [status |-> "ok", params |-> read_json(arg.s)]
    ELSE IF arg.kind = "str"
    THEN IF JsonParses(arg.s)
         THEN [status |-> "ok", params |-> json_loads(arg.s)]
         ELSE [status |-> "JSONDecodeError", params |-> EmptyDict]
    ELSE IF arg.kind = "dict"
    THEN [status |-> "ok", params |-> arg.data]
    ELSE [status |-> "ValueError", params |-> EmptyDict]

\* LoadResult handing the schema only the parameters it has a field for.
LoadResultIgnoringUnknown(arg, obj) ==
    LET p == ResolveParams(arg)
        known == [k \in DOMAIN p.params \cap DOMAIN obj.fields |-> p.params[k]] IN
    IF p.status # "ok"
    THEN Returned("load_params", arg, p.status, FALSE, EmptyDict, EmptyDict,
                  {}, EmptyDict, compiled)
    ELSE IF ~obj.live
    THEN Returned("load_params", arg, "AttributeError", FALSE, p.params,
                  EmptyDict, {}, EmptyDict, compiled)
    ELSE LET r == ValidatorSchemaLoad(obj.fields, obj.context, known) IN
         Returned("load_params", arg, r.status, TRUE, known, obj.context,
                  r.errors, r.data, compiled)

\* LoadResult loading base_spec through the baseline schema and attaching
\* the result to the context before the revision is loaded.
LoadResultRefreshing(arg, obj) ==
    LET p == ResolveParams(arg)
        fresh == SetContext(obj.context,
                            ParamSchemaLoad(param_schema.fields, base_spec).data) IN
    IF p.status # "ok"
    THEN Returned("load_params", arg, p.status, FALSE, EmptyDict, EmptyDict,
                  {}, EmptyDict, compiled)
    ELSE IF ~obj.live
    THEN Returned("load_params", arg, "AttributeError", FALSE, p.params,
                  EmptyDict, {}, EmptyDict, compiled)
    ELSE LET r == ValidatorSchemaLoad(obj.fields, fresh, p.params) IN
         Returned("load_params", arg, r.status, TRUE, p.params, fresh,
                  r.errors, r.data, compiled)

\* Line 99 on the schema object obj (FreeObj: the attribute is not set).
LoadResult(arg, obj) ==
    LET p == ResolveParams(arg) IN
    IF p.status # "ok"
    THEN Returned("load_params", arg, p.status, FALSE, EmptyDict, EmptyDict,
                  {}, EmptyDict, compiled)
    ELSE IF ~obj.live
    THEN Returned("load_params", arg, "AttributeError", FALSE, p.params,
                  EmptyDict, {}, EmptyDict, compiled)
    ELSE LET r == ValidatorSchemaLoad(obj.fields, obj.context, p.params) IN
         Returned("load_params", arg, r.status, TRUE, p.params, obj.context,
                  r.errors, r.data, compiled)

\* LoadParams keeping the cleaned revision in the context's baseline.
LoadParamsCaching(arg) ==
    LET r == LoadResult(arg, Validator)
        base == Validator.context.base_spec
        merged == [k \in DOMAIN base |->
                      IF k \in DOMAIN r.data THEN r.data[k] ELSE base[k]] IN
    /\ ret' = r
    /\ heap' = IF r.validated /\ r.status = "ok"
               THEN [heap EXCEPT ![validator_schema].context = SetContext(@, merged)]
               ELSE heap
    /\ UNCHANGED <<base_spec, param_schema, validator_schema,
                   compiled, built_from, pc, loc>>

LoadParams(arg) ==
    /\ ret' = LoadResult(arg, Validator)
    /\ UNCHANGED <<base_spec, param_schema, validator_schema, heap,
                   compiled, built_from, pc, loc>>

Next == BuildSchemas \/ \E arg \in Args : LoadParams(arg)

Spec == Init /\ [][Next]_vars

(***************************************************************************)
(* The caller assigns to the builder's base_spec attribute.                *)
(***************************************************************************)
SetBaseSpec(bs) ==
    /\ bs # base_spec
    /\ base_spec' = bs
    /\ ret' = [NoRet EXCEPT !.op = "set_base_spec"]
    /\ UNCHANGED <<param_schema, validator_schema, heap, compiled, built_from, pc, loc>>

\* The revisions loaded between edits of base_spec.
EditArgs == {DictArg(FileRevision), DictArg(TextRevision), DictArg(EmptyDict)}

EditNext ==
    \/ BuildSchemas
    \/ \E arg \in EditArgs : LoadParams(arg)
    \/ \E bs \in BaseSpecs : SetBaseSpec(bs)

EditSpec == Init /\ [][EditNext]_vars

(***************************************************************************)
(* Calls of several threads on one builder, a statement at a time.         *)
(* pc: idle, b67, b70, b72, b79 (the line build_schemas runs next), l99    *)
(* (validator_schema.load in progress).                                    *)
(***************************************************************************)
Finish(t) ==
    /\ pc' = [pc EXCEPT ![t] = "idle"]
    /\ loc' = [loc EXCEPT ![t] = IdleLoc]

\* Lines 53-65.
BuildStart(t) ==
    /\ pc[t] = "idle"
    /\ LET frag == CompileFragments(base_spec) IN
       IF frag.status # "ok"
       THEN /\ ret' = BuildReturned(frag.status, {})
            /\ UNCHANGED <<pc, loc>>
       ELSE /\ pc' = [pc EXCEPT ![t] = "b67"]
            /\ loc' = [loc EXCEPT ![t] =
                         [IdleLoc EXCEPT !.op = "build_schemas",
                                         !.param_dict = frag.param_dict,
                                         !.validator_dict = frag.validator_dict]]
            /\ UNCHANGED ret
    /\ UNCHANGED <<base_spec, param_schema, validator_schema, heap, compiled, built_from>>

\* Lines 67-69.
Build67(t) ==
    /\ pc[t] = "b67"
    /\ param_schema' = NewParamSchema(loc[t].param_dict)
    /\ pc' = [pc EXCEPT ![t] = "b70"]
    /\ UNCHANGED <<base_spec, validator_schema, heap, ret, compiled, built_from, loc>>

\* Line 70: self.param_schema.load(self.base_spec).
Build70(t) ==
    /\ pc[t] = "b70"
    /\ LET r == ParamSchemaLoad(param_schema.fields, base_spec) IN
       IF r.status # "ok"
       THEN /\ ret' = BuildReturned(r.status, r.errors)
            /\ Finish(t)
       ELSE /\ pc' = [pc EXCEPT ![t] = "b72"]
            /\ loc' = [loc EXCEPT ![t].cleaned = r.data]
            /\ UNCHANGED ret
    /\ UNCHANGED <<base_spec, param_schema, validator_schema, heap, compiled, built_from>>

\* Lines 72-78.
Build72(t) ==
    /\ pc[t] = "b72"
    /\ LET id == NewId(loc) IN
       /\ validator_schema' = id
       /\ heap' = Collect([heap EXCEPT ![id] = NewValidatorSchema(loc[t].validator_dict)],
                          id, loc)
    /\ pc' = [pc EXCEPT ![t] = "b79"]
    /\ UNCHANGED <<base_spec, param_schema, ret, compiled, built_from, loc>>

\* Line 79: self.validator_schema is read again here.
Build79(t) ==
    /\ pc[t] = "b79"
    /\ heap' = [heap EXCEPT ![validator_schema].context = SetContext(@, loc[t].cleaned)]
    /\ compiled' = TRUE
    /\ built_from' = base_spec
    /\ ret' = BuildReturned("ok", {})
    /\ Finish(t)
    /\ UNCHANGED <<base_spec, param_schema, validator_schema>>

\* Lines 91-98 and the read of self.validator_schema at line 99.
LoadStart(t, arg) ==
    /\ pc[t] = "idle"
    /\ IF ResolveParams(arg).status # "ok" \/ validator_schema = 0
       THEN /\ ret' = LoadResult(arg, Validator)
            /\ UNCHANGED <<pc, loc>>
       ELSE /\ pc' = [pc EXCEPT ![t] = "l99"]
            /\ loc' = [loc EXCEPT ![t] =
                         [IdleLoc EXCEPT !.op = "load_params",
                                         !.arg = arg,
                                         !.params = ResolveParams(arg).params,
                                         !.obj = validator_schema,
                                         !.context0 = heap[validator_schema].context]]
            /\ UNCHANGED ret
    /\ UNCHANGED <<base_spec, param_schema, validator_schema, heap, compiled, built_from>>

\* Line 99: the load on the schema object this call read, with the context
\* the object has by now.
LoadFinish(t) ==
    /\ pc[t] = "l99"
    /\ ret' = LoadResult(loc[t].arg, heap[loc[t].obj])
    /\ Finish(t)
    /\ heap' = Collect(heap, validator_schema, loc')
    /\ UNCHANGED <<base_spec, param_schema, validator_schema, compiled, built_from>>

\* The arguments of the concurrent load_params calls.
ConcArgs == {DictArg(FileRevision), DictArg(EmptyDict), OtherArg}

ConcNext ==
    \E t \in Threads :
        \/ BuildStart(t)
        \/ Build67(t)
        \/ Build70(t)
        \/ Build72(t)
        \/ Build79(t)
        \/ \E arg \in ConcArgs : LoadStart(t, arg)
        \/ LoadFinish(t)

ConcSpec == Init /\ [][ConcNext]_vars

Context == Validator.context

\* The cleaned baseline a build_schemas call computes from base_spec bs.
CleanedBaseline(bs) == ParamSchemaLoad(CompileFragments(bs).param_dict, bs).data

Reported(errors) == {<<e[1], e[2]>> : e \in errors}

\* A document holding only entry i of parameter k of doc.
Single(doc, k, i) == [x \in {k} |-> <<doc[x][i]>>]

\* The parameters and entries of a baseline that the baseline schema refuses
\* when each is loaded alone.
BaseOffenders(fields, doc) ==
    {<<k, 0>> : k \in DOMAIN doc \ DOMAIN fields}
    \cup UNION { {<<k, i>> : i \in {j \in 1..Len(doc[k]) :
                    ParamSchemaLoad(fields, Single(doc, k, j)).status # "ok"}}
                 : k \in DOMAIN doc \cap DOMAIN fields }

\* The same for a revision and the revision schema.
RevOffenders(fields, context, doc) ==
    {<<k, 0>> : k \in DOMAIN doc \ DOMAIN fields}
    \cup UNION { {<<k, i>> : i \in {j \in 1..Len(doc[k]) :
                    ValidatorSchemaLoad(fields, context, Single(doc, k, j)).status # "ok"}}
                 : k \in DOMAIN doc \cap DOMAIN fields }

(***************************************************************************)
(* C1. load_params validates a revision only on a compiled builder: before *)
(* any build_schemas call has run to completion it never reaches           *)
(* validator_schema.load, and once one has, an argument that stands for a  *)
(* revision always reaches it.                                             *)
(***************************************************************************)
C1_ValidatesOnlyWhenCompiled ==
    ret.op = "load_params" =>
        /\ ret.validated => compiled
        /\ ~compiled => ret.status \in {"AttributeError", "ValueError", "JSONDecodeError"}
        /\ (compiled /\ ResolveParams(ret.arg).status = "ok") => ret.validated

\* load_params of a dict after a build_schemas that failed in the baseline load.
C1_Witness ==
    /\ ret.op = "load_params" /\ ret.arg.kind = "dict"
    /\ ret.status = "AttributeError"
    /\ ~compiled /\ param_schema.set

(***************************************************************************)
(* C2. A build_schemas call that fails leaves param_schema,                *)
(* validator_schema and the validator's context as they were.              *)
(***************************************************************************)
C2_FailedBuildPublishesNothing ==
    [][(ret'.op = "build_schemas" /\ ret'.status # "ok")
        => UNCHANGED <<param_schema, validator_schema, heap>>]_vars

(***************************************************************************)
(* C3. The context of a load_params call in progress is its own: no other  *)
(* call in progress uses the same one, and its baseline is what it was     *)
(* when the call read it.                                                  *)
(***************************************************************************)
C3_ContextIsLocal ==
    \A t \in Threads :
        pc[t] = "l99" =>
            /\ \A u \in Threads \ {t} : pc[u] = "l99" => loc[u].obj # loc[t].obj
            /\ heap[loc[t].obj].context = loc[t].context0

(***************************************************************************)
(* C4 as claimed. At every validator_schema.load of load_params,           *)
(* context["base_spec"] is the result of loading the builder's base_spec   *)
(* through the baseline schema.                                            *)
(***************************************************************************)
C4_ContextIsFreshBaseline ==
    (ret.op = "load_params" /\ ret.validated) =>
        LET r == ParamSchemaLoad(param_schema.fields, base_spec) IN
        /\ r.status = "ok"
        /\ "base_spec" \in DOMAIN ret.context
        /\ ret.context.base_spec = r.data

(***************************************************************************)
(* C4 as amended. At every validator_schema.load of load_params,           *)
(* context["base_spec"] is the cleaned baseline that the last build_schemas*)
(* call to run to completion computed from base_spec as it was then.       *)
(***************************************************************************)
C4_ContextIsBuiltBaseline ==
    (ret.op = "load_params" /\ ret.validated) =>
        /\ "base_spec" \in DOMAIN ret.context
        /\ ret.context.base_spec = CleanedBaseline(built_from)

\* A load after base_spec was changed and not compiled again.
C4_Witness ==
    /\ ret.op = "load_params" /\ ret.validated
    /\ base_spec # built_from
    /\ \E k \in DOMAIN built_from : Len(built_from[k]) > 0

(***************************************************************************)
(* C5. A load_params call, returning or raising, leaves base_spec,         *)
(* param_schema, validator_schema and the validator's context unchanged.   *)
(***************************************************************************)
C5_LoadParamsFrame ==
    [][ret'.op = "load_params"
        => /\ UNCHANGED <<base_spec, param_schema, validator_schema>>
           /\ Context' = Context
           /\ Validator'.fields = Validator.fields]_vars

\* A revision that was validated and returned cleaned.
C5_Witness ==
    /\ ret.op = "load_params" /\ ret.validated
    /\ ret.status = "ok" /\ DOMAIN ret.data # {}

(***************************************************************************)
(* C6. On a compiled builder, load_params of a revision naming a parameter *)
(* that is no key of base_spec raises a validation error that reports the  *)
(* parameter as unknown, and returns no cleaned revision.                  *)
(***************************************************************************)
C6_UnknownParameterRejected ==
    (ret.op = "load_params" /\ compiled /\ ResolveParams(ret.arg).status = "ok")
        => \A k \in DOMAIN ResolveParams(ret.arg).params \ DOMAIN base_spec :
              /\ ret.status = "ValidationError"
              /\ <<k, 0, "unknown">> \in ret.errors
              /\ ret.data = EmptyDict

\* A revision with one known and one unknown parameter.
C6_Witness ==
    /\ ret.op = "load_params" /\ compiled /\ ret.validated
    /\ DOMAIN ret.params \ DOMAIN base_spec # {}
    /\ DOMAIN ret.params \cap DOMAIN base_spec # {}

C8_BuildIdempotent ==
    [][(compiled /\ base_spec = built_from /\ ret'.op = "build_schemas")
        => /\ ret'.status = "ok"
           /\ Context' = Context
           /\ Context'.base_spec = ParamSchemaLoad(param_schema.fields, base_spec).data]_vars

\* A second build_schemas on a baseline with entries that were converted.
C8_Witness ==
    /\ ret.op = "build_schemas" /\ ret.status = "ok" /\ ret.was_compiled
    /\ \E k \in DOMAIN base_spec :
          /\ Len(base_spec[k]) > 0
          /\ base_spec[k][1].value.repr = "str"
          /\ Context.base_spec[k][1].value = base_spec[k][1].value.n

(***************************************************************************)
(* C9. load_params raises ValueError on an argument that is neither a      *)
(* string nor a dict, without invoking the revision schema or changing the *)
(* builder; it hands a dict to the revision schema as is, reads a string   *)
(* that names an existing path as a JSON file, and parses any other string *)
(* as JSON text.                                                           *)
(***************************************************************************)
C9_ArgumentDispatch ==
    [][ret'.op = "load_params" =>
        LET arg == ret'.arg IN
        /\ arg.kind = "other" =>
              /\ ret'.status = "ValueError" /\ ~ret'.validated
              /\ UNCHANGED <<base_spec, param_schema, validator_schema, heap>>
        /\ (arg.kind = "dict" /\ validator_schema # 0) =>
              ret'.validated /\ ret'.params = arg.data
        /\ (arg.kind = "str" /\ PathExists(arg.s) /\ validator_schema # 0) =>
              ret'.validated /\ ret'.params = read_json(arg.s)
        /\ (arg.kind = "str" /\ ~PathExists(arg.s) /\ validator_schema # 0) =>
              IF JsonParses(arg.s)
              THEN ret'.validated /\ ret'.params = json_loads(arg.s)
              ELSE ret'.status = "JSONDecodeError" /\ ~ret'.validated]_vars

\* ValueError on a compiled builder, whose schema was there to be invoked.
C9_Witness ==
    /\ ret.op = "load_params" /\ ret.arg.kind = "other"
    /\ ret.status = "ValueError" /\ compiled

(***************************************************************************)
(* C10. After a successful build_schemas the baseline schema and the       *)
(* revision schema each have exactly one field per key of base_spec.       *)
(***************************************************************************)
C10_NoParameterSkipped ==
    (ret.op = "build_schemas" /\ ret.status = "ok") =>
        /\ param_schema.set /\ Validator.live
        /\ DOMAIN param_schema.fields = DOMAIN base_spec
        /\ DOMAIN Validator.fields = DOMAIN base_spec

\* A successful build over two parameters.
C10_Witness ==
    /\ ret.op = "build_schemas" /\ ret.status = "ok"
    /\ DOMAIN base_spec = Names
====
